---- MODULE Spec2Model ----
(***************************************************************************)
(* Model of the file-change capture pipeline of rust-tutor-mcp:            *)
(*   src/src/watcher.rs  FileWatcher::spawn, WatcherState, extract_hunks   *)
(*   src/src/store.rs    TutorStore (file_changes table)                   *)
(*   src/src/server.rs   RustTutor::new and the query handlers             *)
(*                                                                         *)
(* A text is a sequence of characters (one-character strings); "\n" is the *)
(* line terminator.  Line numbers and ranges are the 0-based offsets the   *)
(* code stores.                                                            *)
(***************************************************************************)
EXTENDS Integers, Sequences, FiniteSets, TLC

\* ------------------------------------------------------------------------
\* Bounds of the model
\* ------------------------------------------------------------------------
MaxRows == 2
MaxBatch == 1
MaxClock == 1
MaxLines == 3
MaxHunks == 2

\* ------------------------------------------------------------------------
\* Program constants
\* ------------------------------------------------------------------------
\* context radius of similar's UnifiedDiff, used by diff.unified_diff()
ContextRadius == 3
\* server.rs: const DEFAULT_LIST_LIMIT: i64 = 5
DEFAULT_LIST_LIMIT == 5

NL == "\n"

\* ------------------------------------------------------------------------
\* Strings
\* ------------------------------------------------------------------------
RECURSIVE Concat(_)
\* concatenation of a sequence of texts
Concat(ss) ==
    IF ss = <<>> THEN <<>> ELSE Head(ss) \o Concat(Tail(ss))

RECURSIVE Join(_, _)
\* Vec<String>::join(sep): the pieces with sep between two neighbours
Join(ss, sep) ==
    IF ss = <<>> THEN <<>>
    ELSE IF Len(ss) = 1 THEN Head(ss)
    ELSE Head(ss) \o sep \o Join(Tail(ss), sep)

RECURSIVE SplitFrom(_, _, _)
SplitFrom(s, i, acc) ==
    IF i > Len(s) THEN (IF acc = <<>> THEN <<>> ELSE <<acc>>)
    ELSE IF s[i] = NL THEN <<Append(acc, NL)>> \o SplitFrom(s, i + 1, <<>>)
    ELSE SplitFrom(s, i + 1, Append(acc, s[i]))

\* TextDiff::from_lines tokenises a text into lines that keep their "\n"
SplitLines(s) == SplitFrom(s, 1, <<>>)

\* a text made of the given one-letter lines, each terminated by "\n"
TextOf(letters) == Concat([i \in 1..Len(letters) |-> <<letters[i], NL>>])

\* the same text without the terminator of the last line
TextOfNoEol(letters) ==
    IF letters = <<>> THEN <<>>
    ELSE SubSeq(TextOf(letters), 1, 2 * Len(letters) - 1)

\* ------------------------------------------------------------------------
\* Line diff (similar::TextDiff::from_lines, as used by extract_hunks)
\* ------------------------------------------------------------------------
RECURSIVE LcsFillRow(_, _, _, _, _, _)
\* row i of the table below, filled from the right: acc holds the entries
\* j+1.. of the row, `below` is row i+1
LcsFillRow(a, b, i, below, j, acc) ==
    IF j = 0 \/ acc = <<>> THEN acc
    ELSE LET v == IF a[i] = b[j] THEN below[j + 1] + 1
                  ELSE IF below[j] >= acc[1] THEN below[j] ELSE acc[1]
         IN  LcsFillRow(a, b, i, below, j - 1, <<v>> \o acc)

RECURSIVE LcsRows(_, _, _, _)
LcsRows(a, b, i, rows) ==
    IF i = 0 \/ rows = <<>> THEN rows
    ELSE LcsRows(a, b, i - 1, <<LcsFillRow(a, b, i, rows[1], Len(b), <<0>>)>> \o rows)

\* LcsTable(a, b)[i][j] is the length of a longest common subsequence of
\* a[i..] and b[j..]
LcsTable(a, b) == LcsRows(a, b, Len(a), <<[j \in 1..(Len(b) + 1) |-> 0]>>)

RECURSIVE EditTags(_, _, _, _, _)
\* a shortest edit script of a[i..] into b[j..], one tag per step:
\* "E" keeps a line, "D" deletes a line of a, "I" inserts a line of b
EditTags(a, b, i, j, T) ==
    IF i > Len(a) /\ j > Len(b) THEN <<>>
    ELSE IF j > Len(b) THEN <<"D">> \o EditTags(a, b, i + 1, j, T)
    ELSE IF i > Len(a) THEN <<"I">> \o EditTags(a, b, i, j + 1, T)
    ELSE IF a[i] = b[j] THEN <<"E">> \o EditTags(a, b, i + 1, j + 1, T)
    ELSE IF T[i + 1][j] >= T[i][j + 1]
         THEN <<"D">> \o EditTags(a, b, i + 1, j, T)
         ELSE <<"I">> \o EditTags(a, b, i, j + 1, T)

\* DiffOp: tag, old_index/old_len, new_index/new_len (0-based offsets)
DiffOp(tag, oi, ol, ni, nl) ==
    [tag |-> tag, old_index |-> oi, old_len |-> ol, new_index |-> ni, new_len |-> nl]

OpOldEnd(op) == op.old_index + op.old_len
OpNewEnd(op) == op.new_index + op.new_len

RECURSIVE FoldTags(_, _, _)
\* the ops of an edit script: every maximal run of kept lines is one Equal
\* op, every maximal run of deletions and insertions is one Delete, Insert
\* or Replace op (the Replace/Compact hooks of the capture)
FoldTags(tags, k, ops) ==
    IF k > Len(tags) THEN ops
    ELSE
      LET t    == tags[k]
          n    == Len(ops)
          last == ops[n]
          oi   == IF n = 0 THEN 0 ELSE OpOldEnd(last)
          ni   == IF n = 0 THEN 0 ELSE OpNewEnd(last)
          dOld == IF t = "I" THEN 0 ELSE 1
          dNew == IF t = "D" THEN 0 ELSE 1
          same == /\ n > 0
                  /\ (t = "E") = (last.tag = "Equal")
          grown == IF ~same THEN <<>>
                   ELSE LET ol == last.old_len + dOld
                            nl == last.new_len + dNew
                            tg == IF t = "E" THEN "Equal"
                                  ELSE IF nl = 0 THEN "Delete"
                                  ELSE IF ol = 0 THEN "Insert"
                                  ELSE "Replace"
                        IN  DiffOp(tg, last.old_index, ol, last.new_index, nl)
          fresh == DiffOp(IF t = "E" THEN "Equal" ELSE IF t = "D" THEN "Delete" ELSE "Insert",
                          oi, dOld, ni, dNew)
      IN  IF same
          THEN FoldTags(tags, k + 1, [ops EXCEPT ![n] = grown])
          ELSE FoldTags(tags, k + 1, Append(ops, fresh))

\* TextDiff::from_lines(old, new).ops()
DiffOps(oldLines, newLines) ==
    FoldTags(EditTags(oldLines, newLines, 1, 1, LcsTable(oldLines, newLines)), 1, <<>>)

\* n.saturating_sub(m)
SatSub(n, m) == IF n > m THEN n - m ELSE 0

\* group_diff_ops, first part: the leading and the trailing Equal op are cut
\* down to n lines of context
TrimEnds(ops, n) ==
    LET f  == ops[1]
        o1 == IF f.tag = "Equal"
              THEN LET off == SatSub(f.old_len, n)
                   IN  [ops EXCEPT ![1] = DiffOp("Equal", f.old_index + off, f.old_len - off,
                                                 f.new_index + off, f.new_len - off)]
              ELSE ops
        l  == o1[Len(o1)]
    IN  IF l.tag = "Equal"
        THEN LET cut == SatSub(l.old_len, n)
             IN  [o1 EXCEPT ![Len(o1)] = DiffOp("Equal", l.old_index, l.old_len - cut,
                                                l.new_index, l.new_len - cut)]
        ELSE o1

RECURSIVE GroupLoop(_, _, _, _, _)
\* group_diff_ops, the loop: an Equal run longer than 2n closes the group
GroupLoop(ops, k, n, pending, rv) ==
    IF k > Len(ops)
    THEN IF pending = <<>> \/ (Len(pending) = 1 /\ pending[1].tag = "Equal")
         THEN rv
         ELSE Append(rv, pending)
    ELSE
      LET op == ops[k]
      IN  IF op.tag = "Equal" /\ op.old_len > n * 2
          THEN LET off == SatSub(op.old_len, n)
               IN  GroupLoop(ops, k + 1, n,
                             <<DiffOp("Equal", op.old_index + off, op.old_len - off,
                                      op.new_index + off, op.new_len - off)>>,
                             Append(rv, Append(pending,
                                    DiffOp("Equal", op.old_index, n, op.new_index, n))))
          ELSE GroupLoop(ops, k + 1, n, Append(pending, op), rv)

\* group_diff_ops that keeps a group made of a single Equal op
group_diff_ops_keep_equal(ops, n) ==
    IF ops = <<>> THEN <<>>
    ELSE LET rv == GroupLoop(TrimEnds(ops, n), 1, n, <<>>, <<>>)
         IN  IF rv = <<>> THEN <<TrimEnds(ops, n)>> ELSE rv

\* similar::group_diff_ops(ops, n), the hunks of diff.unified_diff()
group_diff_ops(ops, n) ==
    IF ops = <<>> THEN <<>> ELSE GroupLoop(TrimEnds(ops, n), 1, n, <<>>, <<>>)

\* the lines of `lines` at the 0-based offsets [start, start + count)
Span(lines, start, count) == SubSeq(lines, start + 1, start + count)

\* hunk.iter_changes() filtered on ChangeTag::Delete: the deleted lines
RECURSIVE DeletedLines(_, _)
DeletedLines(ops, oldLines) ==
    IF ops = <<>> THEN <<>>
    ELSE (IF Head(ops).tag \in {"Delete", "Replace"}
          THEN Span(oldLines, Head(ops).old_index, Head(ops).old_len)
          ELSE <<>>) \o DeletedLines(Tail(ops), oldLines)

\* hunk.iter_changes() filtered on ChangeTag::Insert: the inserted lines
RECURSIVE InsertedLines(_, _)
InsertedLines(ops, newLines) ==
    IF ops = <<>> THEN <<>>
    ELSE (IF Head(ops).tag \in {"Insert", "Replace"}
          THEN Span(newLines, Head(ops).new_index, Head(ops).new_len)
          ELSE <<>>) \o InsertedLines(Tail(ops), newLines)

\* the body of the loop of extract_hunks: HunkData of one unified-diff hunk
HunkData(idx, ops, oldLines, newLines) ==
    LET old_start == ops[1].old_index
        old_end   == OpOldEnd(ops[Len(ops)])
        new_start == ops[1].new_index
        new_end   == OpNewEnd(ops[Len(ops)])
    IN  [idx          |-> idx,
         old_start    |-> old_start,
         old_count    |-> old_end - old_start,
         new_start    |-> new_start,
         new_count    |-> new_end - new_start,
         before_lines |-> Join(DeletedLines(ops, oldLines), <<NL>>),
         after_lines  |-> Join(InsertedLines(ops, newLines), <<NL>>)]

\* fn extract_hunks(old: &str, new: &str) -> Vec<HunkData>
extract_hunks(old, new) ==
    LET oldLines == SplitLines(old)
        newLines == SplitLines(new)
        groups   == group_diff_ops(DiffOps(oldLines, newLines), ContextRadius)
    IN  [g \in 1..Len(groups) |-> HunkData(g - 1, groups[g], oldLines, newLines)]

\* ------------------------------------------------------------------------
\* The watched tree and the texts its files take
\* ------------------------------------------------------------------------
Paths == {"a.rs", "b.rs", "n.txt"}

\* event.path.extension().and_then(|e| e.to_str())
Extension(p) == IF p \in {"a.rs", "b.rs"} THEN "rs" ELSE "txt"

ABC == TextOf(<<"a", "b", "c">>)
AXC == TextOf(<<"a", "x", "c">>)
Ten == TextOf(<<"a", "b", "c", "d", "e", "f", "g", "h", "i", "j">>)
TenEd == TextOf(<<"x", "b", "c", "d", "e", "f", "g", "h", "i", "y">>)
\* Ten with its lines 3 and 6 edited: two unchanged lines lie between them
TenNear == TextOf(<<"a", "b", "x", "d", "e", "y", "g", "h", "i", "j">>)
\* the text "hello\n"
Hello == <<"h", "e", "l", "l", "o", NL>>

\* the contents std::fs::read_to_string can return for a file of the tree
FileTexts(p) ==
    IF p = "a.rs" THEN {Ten, TenEd} ELSE {<<>>, ABC}

\* the trees the initial walk can find: the .rs files it can read, with
\* their content
Trees ==
    UNION {{f \in [S -> UNION {FileTexts(p) : p \in S}] : \A p \in S : f[p] \in FileTexts(p)} :
              S \in SUBSET {p \in Paths : Extension(p) = "rs"}}

\* HashMap::remove / HashMap::insert on a map kept as a function
MapRemove(m, k) == [x \in DOMAIN m \ {k} |-> m[x]]
MapInsert(m, k, v) == [x \in DOMAIN m \cup {k} |-> IF x = k THEN v ELSE m[x]]

\* ------------------------------------------------------------------------
\* State
\* ------------------------------------------------------------------------
VARIABLES
    svc,        \* the service: "starting", "running", "aborted"
    wpc,        \* the capture worker: "unspawned", "boot", "idle", "saving",
                \*   "returned" (no project root), "panicked"
    last_seen,  \* WatcherState.last_seen
    batch,      \* the events of the debounce batch not yet handled
    cur,        \* the process_event call in progress: <<>> or <<frame>>
    store,      \* the rows of file_changes, in rowid order
    nextUuid,   \* the change identifiers minted so far
    clock,      \* the last reading of Utc::now()
    poisoned,   \* the Mutex<TutorStore> was poisoned by a panic of its holder
    resp,       \* the answer of the query being handled, until it is returned
    log,        \* what the last step did, if it was a step of the worker
    dOld, dNew, dHunks, dpc,  \* DiffSpec: the inputs and the result of extract_hunks
    tpc,        \* LockSpec: where each thread is in its operation
    outer,      \* LockSpec: the holder of the Mutex<TutorStore>, or "free"
    inner,      \* LockSpec: the holder of the Mutex<Connection>, or "free"
    left,       \* LockSpec: the hunks the worker has still to write
    stmts       \* LockSpec: the statements the worker ran under the guard it holds

vars == <<svc, wpc, last_seen, batch, cur, store, nextUuid, clock, poisoned,
          resp, log, dOld, dNew, dHunks, dpc, tpc, outer, inner, left, stmts>>

diffVars == <<dOld, dNew, dHunks, dpc>>

lockVars == <<tpc, outer, inner, left, stmts>>

\* the threads of LockSpec: the capture worker and two query handlers
Handlers == {"h1", "h2"}
Threads == {"worker"} \cup Handlers

\* a step of the worker: what it did, on which path, a count that depends on
\* the kind, and the content it read (if it read one)
Log(kind, path, k, read) == [kind |-> kind, path |-> path, k |-> k, read |-> read]

NoLog == Log("none", "", 0, <<>>)
NoResp == [kind |-> "none", rows |-> <<>>]

Init ==
    /\ svc = "starting"
    /\ wpc = "unspawned"
    /\ last_seen = <<>>
    /\ batch = <<>>
    /\ cur = <<>>
    /\ store = <<>>
    /\ nextUuid = 0
    /\ clock = 0
    /\ poisoned = FALSE
    /\ resp = NoResp
    /\ log = NoLog
    /\ dOld = <<>> /\ dNew = <<>> /\ dHunks = <<>> /\ dpc = "off"
    /\ tpc = [t \in Threads |-> "off"]
    /\ outer = "free" /\ inner = "free" /\ left = 0 /\ stmts = 0

\* ------------------------------------------------------------------------
\* Service start (main, RustTutor::new)
\* ------------------------------------------------------------------------
\* Startup with FileWatcher::spawn ahead of TutorStore::open
StartupSpawnFirst ==
    /\ svc = "starting"
    /\ resp = NoResp /\ resp' = NoResp
    /\ \E opened \in BOOLEAN :
          IF opened
          THEN svc' = "running" /\ wpc' = "boot"
          ELSE svc' = "aborted" /\ wpc' = "boot"
    /\ log' = NoLog
    /\ UNCHANGED <<last_seen, batch, cur, store, nextUuid, clock, poisoned>>
    /\ UNCHANGED diffVars
    /\ UNCHANGED lockVars

\* RustTutor::new: TutorStore::open()? fails (no data dir, schema creation
\* failed) and the error leaves main; otherwise the worker is spawned
Startup ==
    /\ svc = "starting"
    /\ resp = NoResp /\ resp' = NoResp
    /\ \E opened \in BOOLEAN :
          IF opened
          THEN svc' = "running" /\ wpc' = "boot"
          ELSE svc' = "aborted" /\ wpc' = "unspawned"
    /\ log' = NoLog
    /\ UNCHANGED <<last_seen, batch, cur, store, nextUuid, clock, poisoned>>
    /\ UNCHANGED diffVars
    /\ UNCHANGED lockVars

\* WorkerBoot with a failure to start that ends the whole service
WorkerBootFatal ==
    /\ wpc = "boot"
    /\ resp = NoResp /\ resp' = NoResp
    /\ \E outcome \in {"ok", "noroot", "nodebouncer", "nowatch"} :
       \E tree \in Trees :
          IF outcome = "noroot"
          THEN /\ wpc' = "returned"
               /\ svc' = "aborted"
               /\ log' = Log("noroot", "", 0, <<>>)
               /\ UNCHANGED last_seen
          ELSE /\ last_seen' = tree
               /\ IF outcome = "ok"
                  THEN wpc' = "idle" /\ svc' = svc /\ log' = Log("seeded", "", 0, <<>>)
                  ELSE wpc' = "panicked" /\ svc' = "aborted" /\ log' = Log(outcome, "", 0, <<>>)
    /\ UNCHANGED <<batch, cur, store, nextUuid, clock, poisoned>>
    /\ UNCHANGED diffVars
    /\ UNCHANGED lockVars

\* the closure of FileWatcher::spawn up to the event loop: without a project
\* root it returns; WatcherState::new seeds last_seen with every .rs file of
\* the tree that can be read; a debouncer or a watch that cannot be set up
\* panics the worker thread (.expect), which holds no guard then
WorkerBoot ==
    /\ wpc = "boot"
    /\ resp = NoResp /\ resp' = NoResp
    /\ \E outcome \in {"ok", "noroot", "nodebouncer", "nowatch"} :
       \E tree \in Trees :
          IF outcome = "noroot"
          THEN /\ wpc' = "returned"
               /\ log' = Log("noroot", "", 0, <<>>)
               /\ UNCHANGED last_seen
          ELSE /\ last_seen' = tree
               /\ IF outcome = "ok"
                  THEN wpc' = "idle" /\ log' = Log("seeded", "", 0, <<>>)
                  ELSE wpc' = "panicked" /\ log' = Log(outcome, "", 0, <<>>)
    /\ UNCHANGED <<svc, batch, cur, store, nextUuid, clock, poisoned>>
    /\ UNCHANGED diffVars
    /\ UNCHANGED lockVars

\* ------------------------------------------------------------------------
\* The debouncer and the clock
\* ------------------------------------------------------------------------
\* the batches of the debouncer: at most one event per path
Batches ==
    {b \in UNION {[1..n -> Paths] : n \in 1..MaxBatch} :
        \A i, j \in 1..Len(b) : i # j => b[i] # b[j]}

\* `for result in rx`, `for event in events`: the batch whose first event the
\* worker handles next is the rest of the batch at hand or, when that one is
\* used up, any batch the debouncer sends
Pending == IF batch = <<>> THEN Batches ELSE {batch}

\* chrono::Utc::now(): the time of the last reading or later
Now == {t \in {clock, clock + 1} : t <= MaxClock}

\* ------------------------------------------------------------------------
\* The capture worker (FileWatcher::spawn event loop, WatcherState)
\* ------------------------------------------------------------------------
\* let old = self.last_seen.get(path).unwrap_or(&empty)
Baseline(m, p) == IF p \in DOMAIN m THEN m[p] ELSE <<>>

\* Record with hunk_idx left at 0 for every hunk
RecordNoIdx(frame, h, now) ==
    [id           |-> 0,
     file_path    |-> frame.path,
     hunk_idx     |-> 0,
     change_id    |-> frame.change_id,
     old_start    |-> h.old_start,
     old_count    |-> h.old_count,
     new_start    |-> h.new_start,
     new_count    |-> h.new_count,
     before_lines |-> h.before_lines,
     after_lines  |-> h.after_lines,
     changed_at   |-> now]

\* the FileChangeRecord built for hunk h of the call in progress
Record(frame, h, now) ==
    [id           |-> 0,
     file_path    |-> frame.path,
     hunk_idx     |-> h.idx,
     change_id    |-> frame.change_id,
     old_start    |-> h.old_start,
     old_count    |-> h.old_count,
     new_start    |-> h.new_start,
     new_count    |-> h.new_count,
     before_lines |-> h.before_lines,
     after_lines  |-> h.after_lines,
     changed_at   |-> now]

\* save_file_change that stores the id of the record (0) as the rowid
save_file_change_record_id(rows, record) == Append(rows, record)

\* save_file_change that overwrites the newest row of the table
save_file_change_overwrite(rows, record) ==
    IF rows = <<>> THEN <<[record EXCEPT !.id = 1]>>
    ELSE [rows EXCEPT ![Len(rows)] = [record EXCEPT !.id = Len(rows)]]

\* TutorStore::save_file_change: INSERT INTO file_changes; the rowid of an
\* INTEGER PRIMARY KEY is one more than the largest one in the table
save_file_change(rows, record) ==
    Append(rows, [record EXCEPT !.id = Len(rows) + 1])

\* FilterEvent that caches the content of the file whatever its extension
FilterEventCached ==
    /\ wpc = "idle"
    /\ resp = NoResp /\ resp' = NoResp
    /\ \E b \in Pending :
          /\ Extension(Head(b)) # "rs"
          /\ batch' = Tail(b)
          /\ \E contents \in FileTexts(Head(b)) :
                last_seen' = MapInsert(last_seen, Head(b), contents)
          /\ log' = Log("filtered", Head(b), 0, <<>>)
    /\ UNCHANGED <<svc, wpc, cur, store, nextUuid, clock, poisoned>>
    /\ UNCHANGED diffVars
    /\ UNCHANGED lockVars

\* an event whose path does not have the extension rs is passed over
FilterEvent ==
    /\ wpc = "idle"
    /\ resp = NoResp /\ resp' = NoResp
    /\ \E b \in Pending :
          /\ Extension(Head(b)) # "rs"
          /\ batch' = Tail(b)
          /\ log' = Log("filtered", Head(b), 0, <<>>)
    /\ UNCHANGED <<svc, wpc, last_seen, cur, store, nextUuid, clock, poisoned>>
    /\ UNCHANGED diffVars
    /\ UNCHANGED lockVars

\* Tombstone with last_seen.clear() in place of last_seen.remove(path)
TombstoneClear ==
    /\ wpc = "idle"
    /\ resp = NoResp /\ resp' = NoResp
    /\ \E b \in Pending :
          /\ Extension(Head(b)) = "rs"
          /\ last_seen' = <<>>
          /\ batch' = Tail(b)
          /\ log' = Log("tombstone", Head(b),
                        IF Head(b) \in DOMAIN last_seen THEN 1 ELSE 0, <<>>)
    /\ UNCHANGED <<svc, wpc, cur, store, nextUuid, clock, poisoned>>
    /\ UNCHANGED diffVars
    /\ UNCHANGED lockVars

\* event.path.exists() is false: state.last_seen.remove(&event.path)
\* (log.k tells whether the path had a snapshot)
Tombstone ==
    /\ wpc = "idle"
    /\ resp = NoResp /\ resp' = NoResp
    /\ \E b \in Pending :
          /\ Extension(Head(b)) = "rs"
          /\ last_seen' = MapRemove(last_seen, Head(b))
          /\ batch' = Tail(b)
          /\ log' = Log("tombstone", Head(b),
                        IF Head(b) \in DOMAIN last_seen THEN 1 ELSE 0, <<>>)
    /\ UNCHANGED <<svc, wpc, cur, store, nextUuid, clock, poisoned>>
    /\ UNCHANGED diffVars
    /\ UNCHANGED lockVars

\* ReadFail that treats the unreadable file as a deleted one
ReadFailForget(p) ==
    /\ log' = Log("readfail", p, 0, <<>>)
    /\ last_seen' = MapRemove(last_seen, p)
    /\ UNCHANGED <<wpc, cur, nextUuid>>

\* ReadFail that caches the empty text for the file it could not read
ReadFailCacheEmpty(p) ==
    /\ log' = Log("readfail", p, 0, <<>>)
    /\ last_seen' = MapInsert(last_seen, p, <<>>)
    /\ UNCHANGED <<wpc, cur, nextUuid>>

\* process_event, lines 88-94: read_to_string fails, the event is skipped
ReadFail(p) ==
    /\ log' = Log("readfail", p, 0, <<>>)
    /\ UNCHANGED <<wpc, last_seen, cur, nextUuid>>

\* BeginChange with the snapshot replaced before the hunks are written
BeginChangeEager(p, contents) ==
    LET hs == extract_hunks(Baseline(last_seen, p), contents)
    IN  /\ Len(store) + Len(hs) <= MaxRows
        /\ nextUuid' = nextUuid + 1
        /\ cur' = <<[path      |-> p,
                     contents  |-> contents,
                     had       |-> p \in DOMAIN last_seen,
                     old       |-> Baseline(last_seen, p),
                     hunks     |-> hs,
                     next      |-> 1,
                     change_id |-> nextUuid + 1]>>
        /\ wpc' = "saving"
        /\ log' = Log("begin", p, Len(hs), contents)
        /\ last_seen' = MapInsert(last_seen, p, contents)

\* BeginChange with one change identifier for every call
BeginChangeSharedId(p, contents) ==
    LET hs == extract_hunks(Baseline(last_seen, p), contents)
    IN  /\ Len(store) + Len(hs) <= MaxRows
        /\ nextUuid' = nextUuid + 1
        /\ cur' = <<[path      |-> p,
                     contents  |-> contents,
                     had       |-> p \in DOMAIN last_seen,
                     old       |-> Baseline(last_seen, p),
                     hunks     |-> hs,
                     next      |-> 1,
                     change_id |-> 1]>>
        /\ wpc' = "saving"
        /\ log' = Log("begin", p, Len(hs), contents)
        /\ UNCHANGED last_seen

\* process_event, lines 103-105: the hunks are extracted and a change
\* identifier is minted; the writes follow one by one
BeginChange(p, contents) ==
    LET hs == extract_hunks(Baseline(last_seen, p), contents)
    IN  /\ Len(store) + Len(hs) <= MaxRows
        /\ nextUuid' = nextUuid + 1
        /\ cur' = <<[path      |-> p,
                     contents  |-> contents,
                     had       |-> p \in DOMAIN last_seen,
                     old       |-> Baseline(last_seen, p),
                     hunks     |-> hs,
                     next      |-> 1,
                     change_id |-> nextUuid + 1]>>
        /\ wpc' = "saving"
        /\ log' = Log("begin", p, Len(hs), contents)
        /\ UNCHANGED last_seen

\* Unchanged without the comparison `old == &contents`: the call goes on to
\* the diff
UnchangedDiffed(p) == BeginChange(p, Baseline(last_seen, p))

\* process_event, lines 96-101: the content read is the cached one
Unchanged(p) ==
    /\ log' = Log("unchanged", p, 0, Baseline(last_seen, p))
    /\ UNCHANGED <<wpc, last_seen, cur, nextUuid>>

\* event.path.exists() is true: state.process_event(&event.path) up to the
\* first write; the file has any of its contents, or cannot be read
ProcessEvent ==
    /\ wpc = "idle"
    /\ resp = NoResp /\ resp' = NoResp
    /\ \E b \in Pending :
          /\ Extension(Head(b)) = "rs"
          /\ batch' = Tail(b)
          /\ \E readOk \in BOOLEAN : \E contents \in FileTexts(Head(b)) :
                IF ~readOk THEN ReadFail(Head(b))
                ELSE IF Baseline(last_seen, Head(b)) = contents
                     THEN Unchanged(Head(b))
                     ELSE BeginChange(Head(b), contents)
    /\ UNCHANGED <<svc, store, clock, poisoned>>
    /\ UNCHANGED diffVars
    /\ UNCHANGED lockVars

\* the write of one hunk succeeds (lines 107-125)
SaveOk(frame) ==
    /\ \E now \in Now :
          /\ clock' = now
          /\ store' = save_file_change(store, Record(frame, frame.hunks[frame.next], now))
    /\ cur' = <<[frame EXCEPT !.next = frame.next + 1]>>
    /\ log' = Log("saved", frame.path, frame.next, <<>>)
    /\ UNCHANGED <<wpc, poisoned, last_seen>>

\* SaveFail that still replaces the snapshot of the path
SaveFailAdvance(frame) ==
    /\ wpc' = "panicked"
    /\ poisoned' = TRUE
    /\ log' = Log("savefail", frame.path, frame.next, <<>>)
    /\ last_seen' = MapInsert(last_seen, frame.path, frame.contents)
    /\ UNCHANGED <<store, cur, clock>>

\* the write of one hunk fails: .expect("failed to save file change") panics
\* while the guard of self.db.lock() is alive; the worker thread ends and the
\* mutex is poisoned
SaveFail(frame) ==
    /\ wpc' = "panicked"
    /\ poisoned' = TRUE
    /\ log' = Log("savefail", frame.path, frame.next, <<>>)
    /\ UNCHANGED <<store, cur, last_seen, clock>>

\* self.db.lock().expect("store lock poisoned") finds the mutex poisoned
LockPoisoned(frame) ==
    /\ wpc' = "panicked"
    /\ log' = Log("lockpoisoned", frame.path, frame.next, <<>>)
    /\ UNCHANGED <<store, cur, last_seen, poisoned, clock>>

\* one iteration of `for hunk in hunks`
SaveHunk ==
    /\ wpc = "saving"
    /\ resp = NoResp /\ resp' = NoResp
    /\ cur[1].next <= Len(cur[1].hunks)
    /\ IF poisoned THEN LockPoisoned(cur[1])
       ELSE \E ok \in BOOLEAN : IF ok THEN SaveOk(cur[1]) ELSE SaveFail(cur[1])
    /\ UNCHANGED <<svc, batch, nextUuid>>
    /\ UNCHANGED diffVars
    /\ UNCHANGED lockVars

\* Commit after which the worker walks the tree again
CommitRewalk ==
    /\ wpc = "saving"
    /\ resp = NoResp /\ resp' = NoResp
    /\ cur[1].next > Len(cur[1].hunks)
    /\ last_seen' = MapInsert(last_seen, cur[1].path, cur[1].contents)
    /\ cur' = <<>>
    /\ wpc' = "boot"
    /\ log' = Log("commit", cur[1].path, Len(cur[1].hunks), cur[1].contents)
    /\ UNCHANGED <<svc, batch, store, nextUuid, clock, poisoned>>
    /\ UNCHANGED diffVars
    /\ UNCHANGED lockVars

\* Commit that returns without replacing the snapshot
CommitDropped ==
    /\ wpc = "saving"
    /\ resp = NoResp /\ resp' = NoResp
    /\ cur[1].next > Len(cur[1].hunks)
    /\ cur' = <<>>
    /\ wpc' = "idle"
    /\ log' = Log("commit", cur[1].path, Len(cur[1].hunks), cur[1].contents)
    /\ UNCHANGED <<svc, batch, store, nextUuid, clock, poisoned, last_seen>>
    /\ UNCHANGED diffVars
    /\ UNCHANGED lockVars

\* line 128, after the loop: self.last_seen.insert(path, contents)
Commit ==
    /\ wpc = "saving"
    /\ resp = NoResp /\ resp' = NoResp
    /\ cur[1].next > Len(cur[1].hunks)
    /\ last_seen' = MapInsert(last_seen, cur[1].path, cur[1].contents)
    /\ cur' = <<>>
    /\ wpc' = "idle"
    /\ log' = Log("commit", cur[1].path, Len(cur[1].hunks), cur[1].contents)
    /\ UNCHANGED <<svc, batch, store, nextUuid, clock, poisoned>>
    /\ UNCHANGED diffVars
    /\ UNCHANGED lockVars

\* ------------------------------------------------------------------------
\* The store queries (TutorStore) and the query handlers (RustTutor)
\* ------------------------------------------------------------------------
\* (WHERE is SelectSeq: the rows that match, in rowid order)
\* ORDER BY changed_at DESC: every arrangement of the rows that is descending
\* by changed_at (the order of rows of equal changed_at is not specified)
OrderByChangedAtDesc(rows) ==
    LET n == Len(rows)
        perms == {f \in [1..n -> 1..n] : \A i, j \in 1..n : i # j => f[i] # f[j]}
    IN  {[i \in 1..n |-> rows[f[i]]] : f \in
            {g \in perms : \A i, j \in 1..n :
                i < j => rows[g[i]].changed_at >= rows[g[j]].changed_at}}

\* LIMIT ?: the first `limit` rows; a negative limit is no limit
Limit(rows, limit) ==
    IF limit < 0 THEN rows
    ELSE SubSeq(rows, 1, IF limit < Len(rows) THEN limit ELSE Len(rows))

\* get_changes_for_file without its WHERE clause
get_changes_for_file_any_path(rows, file_path, limit) ==
    {Limit(r, limit) : r \in OrderByChangedAtDesc(rows)}

\* TutorStore::get_changes_for_file: the possible results
get_changes_for_file(rows, file_path, limit) ==
    {Limit(r, limit) :
        r \in OrderByChangedAtDesc(SelectSeq(rows, LAMBDA x : x.file_path = file_path))}

\* TutorStore::get_changes_for_change_id: the possible results
get_changes_for_change_id(rows, change_id) ==
    OrderByChangedAtDesc(SelectSeq(rows, LAMBDA x : x.change_id = change_id))

\* GroupSummaries without GROUP BY: one summary per row, counting that row
GroupSummariesPerRow(rows) ==
    {{[change_id  |-> rows[i].change_id,
       file_path  |-> rows[i].file_path,
       changed_at |-> rows[i].changed_at,
       hunk_count |-> 1] : i \in 1..Len(rows)}}

\* GROUP BY change_id: one summary per group; file_path and changed_at are
\* bare columns, taken from one row of the group
GroupSummaries(rows) ==
    LET ids == {rows[i].change_id : i \in 1..Len(rows)}
        members(c) == {i \in 1..Len(rows) : rows[i].change_id = c}
        pick == {f \in [ids -> 1..Len(rows)] : \A c \in ids : f[c] \in members(c)}
    IN  {{[change_id  |-> c,
           file_path  |-> rows[f[c]].file_path,
           changed_at |-> rows[f[c]].changed_at,
           hunk_count |-> Cardinality(members(c))] : c \in ids} : f \in pick}

\* the arrangements of a set of summaries, descending by changed_at
ArrangeDesc(S) ==
    LET n == Cardinality(S)
    IN  {q \in [1..n -> S] :
            /\ \A i, j \in 1..n : i # j => q[i] # q[j]
            /\ \A i, j \in 1..n : i < j => q[i].changed_at >= q[j].changed_at}

\* TutorStore::list_recent_change_ids: the possible results
list_recent_change_ids(rows, limit) ==
    IF rows = <<>> THEN {<<>>}
    ELSE UNION {{Limit(q, limit) : q \in ArrangeDesc(S)} : S \in GroupSummaries(rows)}

Limits == {1, DEFAULT_LIST_LIMIT}

\* a handler: self.store.lock().expect("store lock poisoned") panics on a
\* poisoned mutex; a store error becomes McpError::internal_error; otherwise
\* the rows are formatted into a successful result
Answer(results) ==
    IF poisoned THEN resp' = [kind |-> "panic", rows |-> <<>>]
    ELSE \E storeOk \in BOOLEAN :
            IF storeOk
            THEN \E r \in results : resp' = [kind |-> "ok", rows |-> r]
            ELSE resp' = [kind |-> "error", rows |-> <<>>]

\* RustTutor::get_file_changes
GetFileChanges(p, limit) ==
    /\ svc = "running"
    /\ resp = NoResp
    /\ Answer(get_changes_for_file(store, p, limit))
    /\ UNCHANGED <<svc, wpc, last_seen, batch, cur, store, nextUuid, clock, poisoned>>
    /\ log' = NoLog
    /\ UNCHANGED diffVars
    /\ UNCHANGED lockVars

\* RustTutor::list_recent_changes
ListRecentChanges(limit) ==
    /\ svc = "running"
    /\ resp = NoResp
    /\ Answer(list_recent_change_ids(store, limit))
    /\ UNCHANGED <<svc, wpc, last_seen, batch, cur, store, nextUuid, clock, poisoned>>
    /\ log' = NoLog
    /\ UNCHANGED diffVars
    /\ UNCHANGED lockVars

\* RustTutor::get_changes_by_change_id
GetChangesByChangeId(c) ==
    /\ svc = "running"
    /\ resp = NoResp
    /\ Answer(get_changes_for_change_id(store, c))
    /\ UNCHANGED <<svc, wpc, last_seen, batch, cur, store, nextUuid, clock, poisoned>>
    /\ log' = NoLog
    /\ UNCHANGED diffVars
    /\ UNCHANGED lockVars

\* the handler returns: Ok(CallToolResult::success(..)), the McpError, or the
\* panic reaches the caller
Reply ==
    /\ resp # NoResp
    /\ resp' = NoResp
    /\ UNCHANGED <<svc, wpc, last_seen, batch, cur, store, nextUuid, clock, poisoned, log>>
    /\ UNCHANGED diffVars
    /\ UNCHANGED lockVars

\* ------------------------------------------------------------------------
\* Specification of the service
\* ------------------------------------------------------------------------
Next ==
    \/ Startup
    \/ WorkerBoot
    \/ FilterEvent
    \/ Tombstone
    \/ ProcessEvent
    \/ SaveHunk
    \/ Commit
    \/ \E p \in Paths : \E l \in Limits : GetFileChanges(p, l)
    \/ \E l \in Limits : ListRecentChanges(l)
    \/ \E c \in 1..(nextUuid + 1) : GetChangesByChangeId(c)
    \/ Reply

Spec == Init /\ [][Next]_vars

\* The service with its scheduling: the worker is a thread of its own, so a
\* write or a commit that is possible again and again is taken (a handler
\* holds the store only for one query), and a handler that has its answer
\* returns it
LiveSpec ==
    /\ Init /\ [][Next]_vars
    /\ SF_vars(SaveHunk)
    /\ SF_vars(Commit)
    /\ WF_vars(Reply)

\* ------------------------------------------------------------------------
\* Specification of extract_hunks alone
\* ------------------------------------------------------------------------
Letters == {"a", "b", "x"}

\* the texts of at most MaxLines one-letter lines, with or without the
\* terminator of the last line, and the texts of the scenarios
DiffTexts ==
    LET seqs == UNION {[1..n -> Letters] : n \in 0..MaxLines}
    IN  {TextOf(q) : q \in seqs} \cup {TextOfNoEol(q) : q \in seqs}
        \cup {ABC, AXC, Ten, TenEd, TenNear, Hello}

DiffInit ==
    /\ svc = "starting"
    /\ wpc = "unspawned"
    /\ last_seen = <<>>
    /\ batch = <<>>
    /\ cur = <<>>
    /\ store = <<>>
    /\ nextUuid = 0
    /\ clock = 0
    /\ poisoned = FALSE
    /\ resp = NoResp
    /\ log = NoLog
    /\ dOld \in DiffTexts
    /\ dNew \in DiffTexts
    /\ dHunks = <<>>
    /\ dpc = "ready"
    /\ tpc = [t \in Threads |-> "off"]
    /\ outer = "free" /\ inner = "free" /\ left = 0 /\ stmts = 0

\* let hunks = extract_hunks(old, &contents)
Extract ==
    /\ dpc = "ready"
    /\ dHunks' = extract_hunks(dOld, dNew)
    /\ dpc' = "done"
    /\ UNCHANGED <<svc, wpc, last_seen, batch, cur, store, nextUuid, clock, poisoned,
                   resp, log, dOld, dNew>>
    /\ UNCHANGED lockVars

DiffNext == Extract

DiffSpec == DiffInit /\ [][DiffNext]_vars

\* ------------------------------------------------------------------------
\* Specification of the two mutexes: the worker's process_event and the query
\* handlers, statement by statement
\* ------------------------------------------------------------------------
\* the variables of the service that LockSpec leaves alone
restVars == <<svc, wpc, last_seen, batch, cur, store, nextUuid, clock, resp, log>>

LockInit ==
    /\ svc = "starting"
    /\ wpc = "unspawned"
    /\ last_seen = <<>>
    /\ batch = <<>>
    /\ cur = <<>>
    /\ store = <<>>
    /\ nextUuid = 0
    /\ clock = 0
    /\ poisoned = FALSE
    /\ resp = NoResp
    /\ log = NoLog
    /\ dOld = <<>> /\ dNew = <<>> /\ dHunks = <<>> /\ dpc = "off"
    /\ tpc = [t \in Threads |-> "idle"]
    /\ outer = "free" /\ inner = "free" /\ left = 0 /\ stmts = 0

\* thread t moves to pc
Goto(t, pc) == tpc' = [tpc EXCEPT ![t] = pc]

\* process_event, lines 88-101: the file is read and compared with its
\* snapshot; a failed read and an equal content end the call
WRead ==
    /\ tpc["worker"] = "idle"
    /\ \E differs \in BOOLEAN : Goto("worker", IF differs THEN "diffing" ELSE "idle")
    /\ UNCHANGED <<outer, inner, left, stmts, poisoned>>
    /\ UNCHANGED restVars /\ UNCHANGED diffVars

\* lines 103-105: extract_hunks returns the hunks of the difference, at least
\* one, and the change identifier is minted
WDiff ==
    /\ tpc["worker"] = "diffing"
    /\ \E n \in 1..MaxHunks : left' = n
    /\ Goto("worker", "record")
    /\ UNCHANGED <<outer, inner, stmts, poisoned>>
    /\ UNCHANGED restVars /\ UNCHANGED diffVars

\* lines 107-123: the record of the next hunk is built, then
\* self.db.lock().expect("store lock poisoned"): the worker waits for the
\* guard; a poisoned mutex panics the thread
WLockOuter ==
    /\ tpc["worker"] = "record"
    /\ IF poisoned
       THEN Goto("worker", "panicked") /\ UNCHANGED <<outer, stmts>>
       ELSE /\ outer = "free"
            /\ outer' = "worker"
            /\ stmts' = 0
            /\ Goto("worker", "locked")
    /\ UNCHANGED <<inner, left, poisoned>>
    /\ UNCHANGED restVars /\ UNCHANGED diffVars

\* save_file_change, store.rs line 305: self.conn.lock()
WLockInner ==
    /\ tpc["worker"] = "locked"
    /\ inner = "free"
    /\ inner' = "worker"
    /\ Goto("worker", "insert")
    /\ UNCHANGED <<outer, left, stmts, poisoned>>
    /\ UNCHANGED restVars /\ UNCHANGED diffVars

\* store.rs lines 307-326: the INSERT runs and succeeds or fails; the
\* function returns and drops the connection guard
WInsert ==
    /\ tpc["worker"] = "insert"
    /\ stmts' = stmts + 1
    /\ inner' = "free"
    /\ \E ok \in BOOLEAN : Goto("worker", IF ok THEN "saved" ELSE "failed")
    /\ UNCHANGED <<outer, left, poisoned>>
    /\ UNCHANGED restVars /\ UNCHANGED diffVars

\* WRelease that keeps the guard until the last hunk of the group is written
WReleaseAtEnd ==
    /\ tpc["worker"] \in {"saved", "failed"}
    /\ IF tpc["worker"] = "saved"
       THEN /\ left' = left - 1
            /\ outer' = IF left > 1 THEN outer ELSE "free"
            /\ Goto("worker", IF left > 1 THEN "record" ELSE "commit")
            /\ UNCHANGED poisoned
       ELSE /\ outer' = "free"
            /\ poisoned' = TRUE
            /\ Goto("worker", "panicked")
            /\ UNCHANGED left
    /\ UNCHANGED <<inner, stmts>>
    /\ UNCHANGED restVars /\ UNCHANGED diffVars

\* watcher.rs lines 124-126: the statement ends and the guard, a temporary,
\* is dropped; after a failed write .expect("failed to save file change")
\* panics first, and the guard dropped by the unwinding poisons the mutex
WRelease ==
    /\ tpc["worker"] \in {"saved", "failed"}
    /\ outer' = "free"
    /\ IF tpc["worker"] = "saved"
       THEN /\ left' = left - 1
            /\ Goto("worker", IF left > 1 THEN "record" ELSE "commit")
            /\ UNCHANGED poisoned
       ELSE /\ poisoned' = TRUE
            /\ Goto("worker", "panicked")
            /\ UNCHANGED left
    /\ UNCHANGED <<inner, stmts>>
    /\ UNCHANGED restVars /\ UNCHANGED diffVars

\* line 128: self.last_seen.insert(path, contents); the call returns to the
\* event loop
WCommit ==
    /\ tpc["worker"] = "commit"
    /\ Goto("worker", "idle")
    /\ UNCHANGED <<outer, inner, left, stmts, poisoned>>
    /\ UNCHANGED restVars /\ UNCHANGED diffVars

\* a query arrives: get_file_changes, list_recent_changes or
\* get_changes_by_change_id is called
HCall(h) ==
    /\ tpc[h] = "idle"
    /\ Goto(h, "called")
    /\ UNCHANGED <<outer, inner, left, stmts, poisoned>>
    /\ UNCHANGED restVars /\ UNCHANGED diffVars

\* a handler that reaches the connection without the store guard
HLockOuterSkipped(h) ==
    /\ tpc[h] = "called"
    /\ Goto(h, "locked")
    /\ UNCHANGED <<outer, inner, left, stmts, poisoned>>
    /\ UNCHANGED restVars /\ UNCHANGED diffVars

\* server.rs lines 207, 237, 264: self.store.lock().expect("store lock
\* poisoned"): the handler waits for the guard; a poisoned mutex panics it
HLockOuter(h) ==
    /\ tpc[h] = "called"
    /\ IF poisoned
       THEN Goto(h, "panicked") /\ UNCHANGED outer
       ELSE /\ outer = "free"
            /\ outer' = h
            /\ Goto(h, "locked")
    /\ UNCHANGED <<inner, left, stmts, poisoned>>
    /\ UNCHANGED restVars /\ UNCHANGED diffVars

\* store.rs lines 334, 352, 370: self.conn.lock()
HLockInner(h) ==
    /\ tpc[h] = "locked"
    /\ inner = "free"
    /\ inner' = h
    /\ Goto(h, "select")
    /\ UNCHANGED <<outer, left, stmts, poisoned>>
    /\ UNCHANGED restVars /\ UNCHANGED diffVars

\* the SELECT runs and succeeds or fails; the store function returns and
\* drops the connection guard
HSelect(h) ==
    /\ tpc[h] = "select"
    /\ inner' = "free"
    /\ \E ok \in BOOLEAN : Goto(h, IF ok THEN "rows" ELSE "error")
    /\ UNCHANGED <<outer, left, stmts, poisoned>>
    /\ UNCHANGED restVars /\ UNCHANGED diffVars

\* the block of the handler ends (or `?` leaves it with the error): the
\* guard is dropped
HRelease(h) ==
    /\ tpc[h] \in {"rows", "error"}
    /\ outer' = "free"
    /\ Goto(h, IF tpc[h] = "rows" THEN "reply_ok" ELSE "reply_error")
    /\ UNCHANGED <<inner, left, stmts, poisoned>>
    /\ UNCHANGED restVars /\ UNCHANGED diffVars

\* the handler returns its result or its error, or its panic ends the call
HReturn(h) ==
    /\ tpc[h] \in {"reply_ok", "reply_error", "panicked"}
    /\ Goto(h, "idle")
    /\ UNCHANGED <<outer, inner, left, stmts, poisoned>>
    /\ UNCHANGED restVars /\ UNCHANGED diffVars

LockNext ==
    \/ WRead
    \/ WDiff
    \/ WLockOuter
    \/ WLockInner
    \/ WInsert
    \/ WRelease
    \/ WCommit
    \/ \E h \in Handlers : HCall(h)
    \/ \E h \in Handlers : HLockOuter(h)
    \/ \E h \in Handlers : HLockInner(h)
    \/ \E h \in Handlers : HSelect(h)
    \/ \E h \in Handlers : HRelease(h)
    \/ \E h \in Handlers : HReturn(h)

LockSpec == LockInit /\ [][LockNext]_vars

\* ------------------------------------------------------------------------
\* Properties
\* ------------------------------------------------------------------------
\* row r is hunk h of the change group c of path p
IsRowOf(r, p, c, h) ==
    /\ r.file_path = p
    /\ r.change_id = c
    /\ r.hunk_idx = h.idx
    /\ r.old_start = h.old_start /\ r.old_count = h.old_count
    /\ r.new_start = h.new_start /\ r.new_count = h.new_count
    /\ r.before_lines = h.before_lines /\ r.after_lines = h.after_lines

\* every hunk of hs is a row of `rows`, all under one change identifier
AllPersisted(rows, p, hs) ==
    \E c \in 1..nextUuid :
        \A k \in 1..Len(hs) : \E i \in 1..Len(rows) : IsRowOf(rows[i], p, c, hs[k])

\* C1: whenever the worker replaces (or creates) the cached snapshot of a
\* path, every hunk of the diff between the previous snapshot and the new one
\* is already a row of the store, under one change identifier.
C1_SnapshotAfterPersist ==
    [][\A p \in DOMAIN last_seen' :
          (/\ wpc # "boot"
           /\ (p \notin DOMAIN last_seen \/ last_seen'[p] # last_seen[p]))
          => AllPersisted(store, p, extract_hunks(Baseline(last_seen, p), last_seen'[p]))]_vars

\* a change of two hunks has been committed
C1_Witness == log.kind = "commit" /\ log.k = 2

\* the rows of the store written under change identifier c
GroupRows(c) == SelectSeq(store, LAMBDA r : r.change_id = c)

\* C2: once the write of hunk k of a group has failed, the store holds of
\* that group exactly the hunks written before it, in order, and none of the
\* later ones, and the snapshot of the path is the one the diff started from.
C2_PartialGroup ==
    (wpc = "panicked" /\ cur # <<>>) =>
        LET f == cur[1]
            g == GroupRows(f.change_id)
        IN  /\ Len(g) = f.next - 1
            /\ \A k \in 1..Len(g) : IsRowOf(g[k], f.path, f.change_id, f.hunks[k])
            /\ (f.path \in DOMAIN last_seen) = f.had
            /\ Baseline(last_seen, f.path) = f.old

\* the write of the second hunk of a group of two failed
C2_Witness ==
    /\ wpc = "panicked" /\ cur # <<>>
    /\ Len(cur[1].hunks) = 2 /\ cur[1].next = 2
    /\ Len(GroupRows(cur[1].change_id)) = 1

\* C3: after a failed persistence write the capture worker is still running
\* its event loop (and so handles the next event of the path).
C3_WorkerKeepsProcessing ==
    log.kind = "savefail" => wpc \in {"idle", "saving"}

\* the capture worker ended before its event loop started
StartFailed == wpc \in {"returned", "panicked"} /\ cur = <<>>

\* C4: when the worker could not start (no project root, no debouncer, no
\* watch), the service is running, the store mutex is not poisoned and no
\* query handler panics: every query gets a result or an explicit error.
C4_StartFailureOnlyDisablesCapture ==
    StartFailed => /\ svc = "running"
                   /\ ~poisoned
                   /\ resp.kind \in {"none", "ok", "error"}

\* a query was answered with rows-or-empty after the worker failed to start
C4_Witness == StartFailed /\ log.kind = "none" /\ resp.kind = "ok"

\* C5: a process_event call that reads a content equal to the cached
\* snapshot of the path (the empty text when there is none) writes no row,
\* mints no change identifier, starts no change and leaves the snapshot map
\* as it was.
C5_IdenticalIsNoOp ==
    [][(/\ log'.kind \in {"unchanged", "begin"}
        /\ wpc = "idle"
        /\ log'.read = Baseline(last_seen, log'.path))
       => /\ store' = store
          /\ nextUuid' = nextUuid
          /\ last_seen' = last_seen
          /\ cur' = <<>> /\ wpc' = "idle"]_vars

\* an event for a cached path with unchanged content was handled
C5_Witness ==
    /\ log.kind = "unchanged"
    /\ log.path \in DOMAIN last_seen
    /\ last_seen[log.path] = log.read
    /\ log.read # <<>>

\* C6: a process_event call whose read fails changes neither the snapshot
\* map nor the store, and starts no change.
C6_ReadFailureSkips ==
    [][log'.kind = "readfail"
       => /\ last_seen' = last_seen
          /\ store' = store
          /\ nextUuid' = nextUuid
          /\ cur' = cur /\ wpc' = wpc]_vars

\* the read of a cached file failed
C6_Witness ==
    /\ log.kind = "readfail"
    /\ log.path \in DOMAIN last_seen

\* C7: an event for a path that does not exist removes the snapshot of that
\* path, keeps the snapshot of every other path, writes no row and starts no
\* change.
C7_Tombstone ==
    [][log'.kind = "tombstone"
       => /\ log'.path \notin DOMAIN last_seen'
          /\ DOMAIN last_seen' = DOMAIN last_seen \ {log'.path}
          /\ \A q \in DOMAIN last_seen' : last_seen'[q] = last_seen[q]
          /\ store' = store
          /\ nextUuid' = nextUuid
          /\ cur' = cur /\ wpc' = "idle"]_vars

\* a tombstone removed a snapshot while another path stayed cached
C7_Witness ==
    /\ log.kind = "tombstone" /\ log.k = 1
    /\ DOMAIN last_seen # {}

\* a line without its terminator
StripEol(line) ==
    IF line # <<>> /\ line[Len(line)] = NL THEN SubSeq(line, 1, Len(line) - 1) ELSE line

\* the lines of a text, without their terminators
PlainLines(text) == LET ls == SplitLines(text) IN [i \in 1..Len(ls) |-> StripEol(ls[i])]

\* C8: a change of a path without snapshot starts from the empty text and,
\* for a non-empty content, consists of one hunk that is an insert of the
\* whole file: old_count = 0 and after_lines holds the lines of the file;
\* the commit then makes the content the snapshot.
C8_AbsentBaselineWholeInsert ==
    /\ (cur # <<>> /\ ~cur[1].had /\ cur[1].contents # <<>>) =>
          /\ cur[1].old = <<>>
          /\ Len(cur[1].hunks) = 1
          /\ cur[1].hunks[1].old_count = 0
          /\ PlainLines(cur[1].hunks[1].after_lines) = PlainLines(cur[1].contents)
    /\ log.kind = "commit" =>
          /\ log.path \in DOMAIN last_seen
          /\ last_seen[log.path] = log.read

\* the unified-diff hunks of the inputs of DiffSpec
DiffGroups ==
    group_diff_ops(DiffOps(SplitLines(dOld), SplitLines(dNew)), ContextRadius)

\* the ops of a hunk that delete or insert lines
Changing(ops) == SelectSeq(ops, LAMBDA op : op.tag # "Equal")

RECURSIVE SumOldLen(_)
SumOldLen(ops) == IF ops = <<>> THEN 0 ELSE Head(ops).old_len + SumOldLen(Tail(ops))

RECURSIVE SumNewLen(_)
SumNewLen(ops) == IF ops = <<>> THEN 0 ELSE Head(ops).new_len + SumNewLen(Tail(ops))

\* C9: old_start and new_start of every hunk are the 1-based line numbers at
\* which its deleted and its inserted lines start (where it has such lines),
\* old_count and new_count the numbers of deleted and inserted lines;
\* old = a,b,c and new = a,x,c give the single hunk (2, 1, 2, 1).
C9_OneBasedSpans ==
    dpc = "done" =>
        /\ \A g \in 1..Len(dHunks) :
              LET ch == Changing(DiffGroups[g])
              IN  /\ SumOldLen(ch) > 0 => dHunks[g].old_start = ch[1].old_index + 1
                  /\ SumNewLen(ch) > 0 => dHunks[g].new_start = ch[1].new_index + 1
                  /\ dHunks[g].old_count = SumOldLen(ch)
                  /\ dHunks[g].new_count = SumNewLen(ch)
        /\ (dOld = ABC /\ dNew = AXC) =>
              /\ Len(dHunks) = 1
              /\ dHunks[1].old_start = 2 /\ dHunks[1].old_count = 1
              /\ dHunks[1].new_start = 2 /\ dHunks[1].new_count = 1

\* `text` is the lines [start, start + count) of `lines`, counted from
\* `base`, either as they are or without terminators and joined by "\n"
IsSpanText(text, lines, start, count, base) ==
    /\ start - base >= 0
    /\ start - base + count <= Len(lines)
    /\ LET sp == Span(lines, start - base, count)
       IN  \/ text = Concat(sp)
           \/ text = Join([i \in 1..Len(sp) |-> StripEol(sp[i])], <<NL>>)

\* C10: before_lines of every hunk is the text of the lines
\* [old_start, old_start + old_count) of the old text and after_lines the
\* text of the lines [new_start, new_start + new_count) of the new text
\* (line numbers counted from 1 or from 0, lines with or without their
\* terminators).
C10_LinesAreTheSpans ==
    dpc = "done" =>
        \A g \in 1..Len(dHunks) :
            \E base \in {0, 1} :
                /\ IsSpanText(dHunks[g].before_lines, SplitLines(dOld),
                              dHunks[g].old_start, dHunks[g].old_count, base)
                /\ IsSpanText(dHunks[g].after_lines, SplitLines(dNew),
                              dHunks[g].new_start, dHunks[g].new_count, base)

\* C11: extract_hunks of the empty text and the text "hello\n" returns exactly
\* one hunk with old_count = 0, new_start = 1, new_count = 1, an empty
\* before_lines and after_lines = "hello" without a line terminator.
C11_ScenarioB ==
    (dpc = "done" /\ dOld = <<>> /\ dNew = Hello) =>
        /\ Len(dHunks) = 1
        /\ dHunks[1].old_count = 0
        /\ dHunks[1].new_start = 1
        /\ dHunks[1].new_count = 1
        /\ dHunks[1].before_lines = <<>>
        /\ dHunks[1].after_lines = <<"h", "e", "l", "l", "o">>

\* TextDiff::from_lines(old, new).ops() of the inputs of DiffSpec
DiffInputOps == DiffOps(SplitLines(dOld), SplitLines(dNew))

\* C12: the hunks of extract_hunks are the maximal runs of non-equal
\* operations of the diff, one hunk per run, so that two edits with an
\* unchanged line between them are two hunks; their old ranges and their new
\* ranges are disjoint and ascending; two non-adjacent single-line edits of
\* a 10-line file give exactly two hunks.
C12_MaximalRuns ==
    dpc = "done" =>
        /\ Len(dHunks) = Len(Changing(DiffInputOps))
        /\ \A g, h \in 1..Len(dHunks) :
              g < h => /\ dHunks[g].old_start + dHunks[g].old_count <= dHunks[h].old_start
                       /\ dHunks[g].new_start + dHunks[g].new_count <= dHunks[h].new_start
        /\ (dOld = Ten /\ dNew \in {TenEd, TenNear}) => Len(dHunks) = 2

\* C13: in every change group of the store the hunk_idx values are exactly
\* 0..n-1, each once, and old_start and new_start grow strictly with
\* hunk_idx, the old ranges and the new ranges of two hunks of the group
\* being disjoint.
C13_GroupOrder ==
    \A c \in 1..nextUuid :
        LET g == GroupRows(c)
        IN  /\ {g[k].hunk_idx : k \in 1..Len(g)} = 0..(Len(g) - 1)
            /\ \A i, j \in 1..Len(g) : i # j => g[i].hunk_idx # g[j].hunk_idx
            /\ \A i, j \in 1..Len(g) :
                  g[i].hunk_idx < g[j].hunk_idx =>
                      /\ g[i].old_start < g[j].old_start
                      /\ g[i].new_start < g[j].new_start
                      /\ g[i].old_start + g[i].old_count <= g[j].old_start
                      /\ g[i].new_start + g[i].new_count <= g[j].new_start

\* a change group of two hunks is in the store
C13_Witness == \E c \in 1..nextUuid : Len(GroupRows(c)) = 2

\* C14: extract_hunks(t, t) returns zero hunks for every text t.
C14_IdenticalNoHunks ==
    (dpc = "done" /\ dOld = dNew) => dHunks = <<>>

\* a non-empty text was diffed against itself
C14_Witness == dpc = "done" /\ dOld = dNew /\ dOld = Ten

C16_AppendOnly ==
    [][/\ Len(store') >= Len(store)
       /\ \A i \in 1..Len(store) : store'[i] = store[i]]_vars

\* a row was appended to a store that held one already
C16_Witness == log.kind = "saved" /\ Len(store) = 2

\* C17: the identifier of every save_file_change that succeeded is strictly
\* greater than the identifier of every one that succeeded before it (the
\* rows of the store are in the order of their writes).
C17_IdsIncrease ==
    \A i, j \in 1..Len(store) : i < j => store[i].id < store[j].id

\* a second write has succeeded
C17_Witness == \E i \in 1..Len(store) : store[i].id = 2

\* the rows of a sequence, as a set
RowSet(rows) == {rows[i] : i \in 1..Len(rows)}

\* C18: get_changes_for_change_id(id) returns every row of the store with
\* change_id = id and only those, each once, in ascending order of hunk_idx
\* (required here only of rows whose changed_at differ, whose order the query
\* determines).
C18_GroupAscending ==
    \A c \in 1..nextUuid :
        \A r \in get_changes_for_change_id(store, c) :
            /\ RowSet(r) = RowSet(GroupRows(c))
            /\ Len(r) = Len(GroupRows(c))
            /\ \A i, j \in 1..Len(r) :
                  (i < j /\ r[i].changed_at # r[j].changed_at)
                      => r[i].hunk_idx < r[j].hunk_idx

\* the rows of the store with the given file_path
PathRows(p) == SelectSeq(store, LAMBDA x : x.file_path = p)

\* the states in which the store is new: it was just opened for the worker
\* (and is empty) or a row was just written; no other step changes the store,
\* so every content the store ever has is the content of it in such a state
StoreIsNew == log.kind \in {"seeded", "noroot", "saved"}

C20_OneRowPerGroup ==
    StoreIsNew =>
        \A l \in 0..DEFAULT_LIST_LIMIT :
            \A q \in list_recent_change_ids(store, l) :
                /\ \A i, j \in 1..Len(q) : i # j => q[i].change_id # q[j].change_id
                /\ \A i \in 1..Len(q) :
                      /\ q[i].hunk_count = Len(GroupRows(q[i].change_id))
                      /\ q[i].hunk_count >= 1

\* the listing was answered with one row that counts the two hunks of a group
C20_Witness ==
    /\ resp.kind = "ok"
    /\ Len(resp.rows) = 1
    /\ "hunk_count" \in DOMAIN resp.rows[1]
    /\ resp.rows[1].hunk_count = 2
    /\ Len(GroupRows(resp.rows[1].change_id)) = 2

\* the change identifiers of the rows of the store
StoredIds == {store[i].change_id : i \in 1..Len(store)}

\* the latest changed_at of the rows of group c
LatestOf(c) ==
    LET g == GroupRows(c)
    IN  CHOOSE t \in {g[k].changed_at : k \in 1..Len(g)} :
            \A k \in 1..Len(g) : g[k].changed_at <= t

\* C21: every row of list_recent_change_ids carries the latest changed_at of
\* the rows of its group; the rows are in descending order of that time, and
\* for a limit of 0 or more they are the `limit` most recent groups (all of
\* them when there are no more than `limit`).
C21_LatestTimeDescending ==
    \A l \in 0..DEFAULT_LIST_LIMIT :
        \A q \in list_recent_change_ids(store, l) :
            /\ \A i \in 1..Len(q) : q[i].changed_at = LatestOf(q[i].change_id)
            /\ \A i, j \in 1..Len(q) : i < j => q[i].changed_at >= q[j].changed_at
            /\ Len(q) <= l
            /\ Len(q) < l => {q[i].change_id : i \in 1..Len(q)} = StoredIds
            /\ \A c \in StoredIds \ {q[i].change_id : i \in 1..Len(q)} :
                  \A i \in 1..Len(q) : LatestOf(c) <= LatestOf(q[i].change_id)

\* the answer to a query for which the store holds no row: an empty
\* successful result, or the explicit error of a store that failed
EmptyOrStoreError(answer) ==
    /\ answer.kind \in {"ok", "error"}
    /\ answer.kind = "ok" => answer.rows = <<>>

\* C22: a get_file_changes call for a path without rows and a
\* get_changes_by_change_id call for an identifier without rows return a
\* successful, empty result (a store that fails returns its explicit error);
\* the call never fails otherwise.
C22_AbsentIsEmptySuccess ==
    [][/\ \A p \in Paths : \A l \in Limits :
             (GetFileChanges(p, l) /\ PathRows(p) = <<>>) => EmptyOrStoreError(resp')
       /\ \A c \in 1..(nextUuid + 1) :
             (GetChangesByChangeId(c) /\ GroupRows(c) = <<>>) => EmptyOrStoreError(resp')]_vars

\* C23: the capture worker holds the store guard only from the lock() of one
\* hunk write to the end of that statement: not while it reads a file,
\* computes a diff, builds a record or replaces the snapshot; it runs at most
\* one INSERT under one hold of the guard, so the guard is free again between
\* the hunk writes of a group.
C23_GuardPerStatement ==
    /\ outer = "worker" => tpc["worker"] \in {"locked", "insert", "saved", "failed"}
    /\ outer = "worker" => stmts <= 1
    /\ tpc["worker"] \in {"idle", "diffing", "record", "commit"} => outer # "worker"

\* a handler took the guard between the two hunk writes of a group
C23_Witness ==
    /\ tpc["worker"] = "record" /\ left = 1 /\ stmts = 1
    /\ \E h \in Handlers : outer = h

\* C24: when TutorStore::open fails (the data directory cannot be resolved,
\* the schema cannot be created), startup has aborted with the error and the
\* capture worker was never spawned: it has seeded no snapshot and written
\* no row.
C24_SetupFatal ==
    svc = "aborted" =>
        /\ wpc = "unspawned"
        /\ last_seen = <<>>
        /\ store = <<>>
        /\ cur = <<>>

\* startup was aborted
C24_Witness == svc = "aborted" /\ wpc = "unspawned"

\* C25: the cached snapshot of a path is put there by the initial walk, which
\* caches a content it read, or by the end of a process_event call, which
\* caches the new text of a change group of that path whose hunks are all
\* rows of the store, the most recent rows of that path; no other step
\* creates or replaces a snapshot, and only an event for a path that does
\* not exist removes one.
C25_SnapshotIsLastCommitted ==
    [][/\ \A p \in DOMAIN last_seen' :
             (p \notin DOMAIN last_seen \/ last_seen'[p] # last_seen[p]) =>
                 \/ wpc = "boot" /\ last_seen'[p] \in FileTexts(p)
                 \/ /\ wpc = "saving"
                    /\ cur[1].path = p
                    /\ last_seen'[p] = cur[1].contents
                    /\ LET g == GroupRows(cur[1].change_id)
                       IN  /\ Len(g) = Len(cur[1].hunks)
                           /\ Len(g) >= 1
                           /\ \A k \in 1..Len(g) :
                                 IsRowOf(g[k], p, cur[1].change_id, cur[1].hunks[k])
                           /\ \A i \in 1..Len(store) :
                                 store[i].file_path = p => store[i].id <= g[Len(g)].id
       /\ \A p \in DOMAIN last_seen \ DOMAIN last_seen' :
             log'.kind = "tombstone" /\ log'.path = p]_vars

\* the second change of a path was committed
C25_Witness ==
    /\ log.kind = "commit"
    /\ log.path \in DOMAIN last_seen
    /\ last_seen[log.path] = log.read
    /\ \E i, j \in 1..Len(store) :
          /\ store[i].file_path = log.path /\ store[j].file_path = log.path
          /\ store[i].change_id # store[j].change_id

\* the call in progress has ended with its commit: the snapshot of its path
\* is the content it read and a change group of that path holds as many rows
\* as the difference has hunks
Committed ==
    /\ log.kind = "commit"
    /\ log.k >= 1
    /\ log.path \in DOMAIN last_seen
    /\ last_seen[log.path] = log.read
    /\ \E c \in 1..nextUuid :
          /\ Len(GroupRows(c)) = log.k
          /\ \A i \in 1..log.k : /\ GroupRows(c)[i].file_path = log.path
                                  /\ GroupRows(c)[i].hunk_idx = i - 1

\* C26: once process_event has read a content that differs from the snapshot
\* of the path, the call reaches its commit, with every hunk of the
\* difference a row of one change group and the snapshot equal to that
\* content, unless a write fails: the change is not dropped on the way.
C26_ChangeEventuallyCommitted ==
    (wpc = "saving") ~> (Committed \/ wpc = "panicked")

\* a change of two hunks went through to its commit
C26_Witness == Committed /\ log.k = 2 /\ ~poisoned

\* a text with a terminator added when it is not empty and has none at its end
Terminated(text) ==
    IF text = <<>> \/ text[Len(text)] = NL THEN text ELSE text \o <<NL>>

RECURSIVE Rebuild(_, _, _, _, _, _)
\* the text made of `lines` from the 0-based offset pos on, in which the
\* range of every hunk from hs[k] on is replaced by the stored lines of that
\* hunk; toNew: the ranges are the old ranges and the stored lines are
\* after_lines, otherwise the new ranges and before_lines; base is the
\* number of the first line; a range that does not fit gives no text
Rebuild(lines, hs, k, pos, base, toNew) ==
    IF k > Len(hs) THEN Concat(SubSeq(lines, pos + 1, Len(lines)))
    ELSE LET start == (IF toNew THEN hs[k].old_start ELSE hs[k].new_start) - base
             count == IF toNew THEN hs[k].old_count ELSE hs[k].new_count
             piece == IF toNew THEN hs[k].after_lines ELSE hs[k].before_lines
         IN  IF start < pos \/ start + count > Len(lines) THEN <<"?">>
             ELSE Concat(SubSeq(lines, pos + 1, start)) \o Terminated(piece)
                    \o Rebuild(lines, hs, k + 1, start + count, base, toNew)

\* C27: the old ranges of the hunks are disjoint and every deleted line lies
\* in one of them; the old text with the old range of every hunk replaced by
\* its after_lines is the new text, and the new text with the new range of
\* every hunk replaced by its before_lines is the old text (line numbers
\* counted from 0 or from 1).
C27_HunksReconstruct ==
    dpc = "done" =>
        /\ \A g, h \in 1..Len(dHunks) :
              g < h => dHunks[g].old_start + dHunks[g].old_count <= dHunks[h].old_start
        /\ \E base \in {0, 1} :
              /\ Rebuild(SplitLines(dOld), dHunks, 1, 0, base, TRUE) = Terminated(dNew)
              /\ Rebuild(SplitLines(dNew), dHunks, 1, 0, base, FALSE) = Terminated(dOld)

\* the kinds of step that handle an event
EventKinds == {"filtered", "tombstone", "readfail", "unchanged", "begin"}

\* C28: the initial walk is a step of the worker thread that happens at most
\* once, before any event is handled: the worker never comes back to it; the
\* walk only fills the snapshot map, with contents it could read, and writes
\* no row and starts no change.
C28_WalkOnce ==
    [][/\ (wpc = "boot" /\ wpc' # "boot") =>
             /\ last_seen' \in Trees
             /\ store' = store
             /\ nextUuid' = nextUuid
             /\ cur' = <<>>
       /\ wpc' = "boot" => wpc \in {"unspawned", "boot"}
       /\ log'.kind \in EventKinds => (wpc = "idle" /\ svc = "running")
       /\ log'.kind = "seeded" => wpc = "boot"]_vars

\* the walk has seeded the snapshot of one of the two files
C28_Witness == log.kind = "seeded" /\ Cardinality(DOMAIN last_seen) = 1

\* C29: the handling of an event whose path has another extension than rs
\* changes neither the snapshot map nor the store, and starts no change,
\* whether the path exists or not.
C29_OtherExtensionIgnored ==
    [][(log'.kind \in EventKinds /\ Extension(log'.path) # "rs")
       => /\ last_seen' = last_seen
          /\ store' = store
          /\ nextUuid' = nextUuid
          /\ cur' = cur /\ wpc' = wpc]_vars

\* an event for n.txt was handled while snapshots were cached
C29_Witness ==
    /\ log.kind = "filtered" /\ log.path = "n.txt"
    /\ last_seen # <<>>

\* C30: after a hunk write of the worker has failed, the store guard can
\* still be acquired (the mutex is not poisoned) and every query handler
\* returns a result or an explicit error, none panics.
C30_ReadersSurviveWriteFailure ==
    (wpc = "panicked" /\ cur # <<>>) =>
        /\ ~poisoned
        /\ resp.kind \in {"none", "ok", "error"}

\* the steps of one thread between its wait for the store guard and the
\* release of that guard
WorkerSteps == WLockOuter \/ WLockInner \/ WInsert \/ WRelease

HandlerSteps(h) == HLockOuter(h) \/ HLockInner(h) \/ HSelect(h) \/ HRelease(h)

ThreadSteps(t) == IF t = "worker" THEN WorkerSteps ELSE HandlerSteps(t)

\* thread t stands before a lock() call
AtLock(t) == tpc[t] \in {"record", "called", "locked"}

\* thread t is between the start of its statement and the return of the
\* store function
InStatement(t) == tpc[t] \in {"insert", "select"}

\* C31: the worker and the query handlers hold the connection guard only
\* while they hold the store guard, and hold neither outside one operation;
\* at most one thread runs a statement on the connection at a time; and a
\* thread that cannot pass a lock() call waits for a guard whose holder can
\* take a step, so no interleaving of writes and queries deadlocks.
C31_LockOrderNoDeadlock ==
    /\ \A t \in Threads : inner = t => outer = t
    /\ \A t \in Threads : InStatement(t) <=> inner = t
    /\ \A t, u \in Threads : (InStatement(t) /\ InStatement(u)) => t = u
    /\ \A t \in Threads :
          tpc[t] \in {"idle", "diffing", "record", "commit", "called",
                      "reply_ok", "reply_error", "panicked"}
              => (outer # t /\ inner # t)
    /\ \A t \in Threads :
          (AtLock(t) /\ ~ ENABLED ThreadSteps(t))
              => \E u \in Threads \ {t} : outer = u /\ ENABLED ThreadSteps(u)

\* a handler runs its SELECT under both guards while the worker, between
\* two hunks, and the other handler wait for the store guard
C31_Witness ==
    /\ tpc["worker"] = "record" /\ left = 1
    /\ \E h \in Handlers :
          /\ tpc[h] = "select" /\ outer = h /\ inner = h
          /\ \E g \in Handlers \ {h} : tpc[g] = "called"
    /\ ~ ENABLED WorkerSteps

====
